---- MODULE Spec2Model ----
(***************************************************************************)
(* Model of pronounce-backend (src/index.js): an Express relay with a JSON *)
(* body parser, a CORS middleware, GET /health and POST /pronounce, which  *)
(* forwards an audio clip to the Azure speech REST API and reshapes the    *)
(* pronunciation-assessment result.                                        *)
(*                                                                         *)
(* Strings the code inspects (secrets, MIME types, data-URL preambles,     *)
(* the origin allow-list) are sequences of one-character strings, so that  *)
(* trim, toLowerCase, includes, split and the two regular expressions are  *)
(* computed and not assumed.  Upstream scores are fixed-point numbers in   *)
(* tenths (924 is 92.4), so that Math.round is computed as well.           *)
(***************************************************************************)
EXTENDS Integers, Sequences, FiniteSets, TLC

VARIABLES cfg, pc, req, res, passed, upstreamCalls, call, azureResp

vars == <<cfg, pc, req, res, passed, upstreamCalls, call, azureResp>>

(***************************************************************************)
(* Bounds of the model.                                                    *)
(***************************************************************************)
\* payload sizes tried at and above the last too-short size
MaxSlack == 1

(***************************************************************************)
(* Character strings.                                                      *)
(***************************************************************************)
UpperAlpha ==
  <<"A","B","C","D","E","F","G","H","I","J","K","L","M",
    "N","O","P","Q","R","S","T","U","V","W","X","Y","Z">>

LowerAlpha ==
  <<"a","b","c","d","e","f","g","h","i","j","k","l","m",
    "n","o","p","q","r","s","t","u","v","w","x","y","z">>

Digits == {"0","1","2","3","4","5","6","7","8","9"}

Range(s) == {s[i] : i \in DOMAIN s}

\* String.prototype.toLowerCase, one character
LowerChar(c) ==
  IF \E i \in DOMAIN UpperAlpha : UpperAlpha[i] = c
  THEN LowerAlpha[CHOOSE i \in DOMAIN UpperAlpha : UpperAlpha[i] = c]
  ELSE c

\* String.prototype.toLowerCase
ToLowerCase(s) == [i \in DOMAIN s |-> LowerChar(s[i])]

\* String.prototype.includes
Includes(s, sub) ==
  \E i \in 1..(Len(s) - Len(sub) + 1) : SubSeq(s, i, i + Len(sub) - 1) = sub

StartsWith(s, p) == Len(s) >= Len(p) /\ SubSeq(s, 1, Len(p)) = p

\* String.prototype.trim (the only white space the inputs use is the blank)
Trim(s) ==
  LET keep == {i \in DOMAIN s : s[i] # " "}
  IN  IF keep = {} THEN <<>>
      ELSE LET lo == CHOOSE i \in keep : \A j \in keep : i <= j
               hi == CHOOSE i \in keep : \A j \in keep : j <= i
           IN  SubSeq(s, lo, hi)

\* String.prototype.split(",")
RECURSIVE Split(_)
Split(s) ==
  IF \A i \in DOMAIN s : s[i] # ","
  THEN <<s>>
  ELSE LET k == CHOOSE i \in DOMAIN s :
                  s[i] = "," /\ \A j \in 1..(i - 1) : s[j] # ","
       IN  <<SubSeq(s, 1, k - 1)>> \o Split(SubSeq(s, k + 1, Len(s)))

\* Array.prototype.filter(Boolean) on an array of strings
RECURSIVE FilterNonEmpty(_)
FilterNonEmpty(a) ==
  IF a = <<>> THEN <<>>
  ELSE (IF Head(a) = <<>> THEN <<>> ELSE <<Head(a)>>) \o FilterNonEmpty(Tail(a))

(***************************************************************************)
(* JavaScript values: t is the type tag, s the characters of a string, n   *)
(* the value of a number (upstream scores: in tenths) or 1/0 of a boolean. *)
(***************************************************************************)
JUndef == [t |-> "undefined", s |-> <<>>, n |-> 0]
JNull == [t |-> "null", s |-> <<>>, n |-> 0]
JNaN == [t |-> "nan", s |-> <<>>, n |-> 0]
JStr(s) == [t |-> "string", s |-> s, n |-> 0]
JNum(n) == [t |-> "number", s |-> <<>>, n |-> n]
JBool(b) == [t |-> "boolean", s |-> <<>>, n |-> IF b THEN 1 ELSE 0]

\* ToBoolean
Truthy(v) ==
  CASE v.t = "string" -> v.s # <<>>
    [] v.t = "number" -> v.n # 0
    [] v.t = "boolean" -> v.n = 1
    [] OTHER -> FALSE

\* x ?? y
Nullish(v) == v.t \in {"undefined", "null"}

\* String(x || "")
StringOrEmpty(v) == IF v.t = "string" THEN v.s ELSE <<>>

(***************************************************************************)
(* Literals.                                                               *)
(***************************************************************************)
DataScheme == <<"d","a","t","a",":">>
Base64Mark == <<";","b","a","s","e","6","4",",">>
Webm == <<"w","e","b","m">>
Ogg == <<"o","g","g">>
AudioWav == <<"a","u","d","i","o","/","w","a","v">>
AudioOgg == <<"a","u","d","i","o","/","o","g","g">>
AudioWebm == <<"a","u","d","i","o","/","w","e","b","m">>
AudioWebmUpper == <<"A","U","D","I","O","/","W","E","B","M">>
CodecsOpus == <<";","c","o","d","e","c","s","=","o","p","u","s">>

(***************************************************************************)
(* Environment-derived configuration, read once at start-up.               *)
(***************************************************************************)
SecretValues == {JUndef, JStr(<<" ">>), JStr(<<" ","k","1"," ">>)}
KeyValues == {JUndef, JStr(<<"k","e","y">>)}
RegionValues == {JUndef, JStr(<<" ","W","E"," ">>)}
\* ALLOWED_ORIGINS: the default "" and " //a, ,"
AllowedOriginsValues == {<<>>, <<" ","/","/","a",","," ",",">>}

Configs ==
  [PRONOUNCE_SECRET : SecretValues,
   AZURE_SPEECH_KEY : KeyValues,
   AZURE_SPEECH_REGION : RegionValues,
   ALLOWED_ORIGINS : AllowedOriginsValues]

\* const allowedOrigins = ALLOWED_ORIGINS.split(",").map(s => s.trim()).filter(Boolean)
allowedOrigins ==
  LET parts == Split(cfg.ALLOWED_ORIGINS)
  IN  FilterNonEmpty([i \in DOMAIN parts |-> Trim(parts[i])])

\* const azureRegion = (AZURE_SPEECH_REGION || "").trim().toLowerCase()
azureRegion == ToLowerCase(Trim(StringOrEmpty(cfg.AZURE_SPEECH_REGION)))

\* isAllowedOrigin without the "empty allow-list permits all" rule
isAllowedOriginStrict(origin) ==
  IF ~Truthy(origin) THEN TRUE
  ELSE origin.s \in Range(allowedOrigins)

isAllowedOrigin(origin) ==
  IF ~Truthy(origin) THEN TRUE
  ELSE IF Len(allowedOrigins) = 0 THEN TRUE
  ELSE origin.s \in Range(allowedOrigins)

(***************************************************************************)
(* Requests.  audioBase64, when a string, is the characters of head        *)
(* followed by fill base64 characters "A".                                 *)
(***************************************************************************)
AudioUndef == [t |-> "undefined", head |-> <<>>, fill |-> 0]
AudioNum == [t |-> "number", head |-> <<>>, fill |-> 0]
AudioStr(h, f) == [t |-> "string", head |-> h, fill |-> f]

\* if (audioBuf.length < 2000)
MinAudioBytes == 2000

\* the largest count of base64 characters that decodes to fewer than MinAudioBytes
LastShortFill == (MinAudioBytes * 4) \div 3

FillSizes == {0, 3, 12} \cup {LastShortFill + i : i \in 0..MaxSlack}

AudioHeads ==
  {<<>>,
   DataScheme \o AudioWav \o Base64Mark,
   DataScheme \o AudioWebm \o Base64Mark,
   DataScheme \o AudioWebm \o CodecsOpus \o Base64Mark}

AudioValues ==
  {AudioUndef, AudioNum} \cup {AudioStr(h, f) : h \in AudioHeads, f \in FillSizes}

AudioMimeValues ==
  {JUndef, JStr(AudioOgg), JStr(AudioWebm \o CodecsOpus), JStr(AudioWebmUpper)}

TargetTextValues == {JUndef, JStr(<<"h","i">>)}
LanguageValues == {JStr(<<>>), JStr(<<"e","n">>)}

EmptyFields ==
  [targetText |-> JUndef, language |-> JUndef,
   audioBase64 |-> AudioUndef, audioMime |-> JUndef]

\* state: what express.json finds: no body, a JSON object, text that is not
\* JSON, or more than the 15mb limit
Bodies ==
  {[state |-> st, fields |-> EmptyFields] : st \in {"none", "malformed", "toolarge"}}
  \cup
  {[state |-> "json", fields |-> f] :
     f \in [targetText : TargetTextValues, language : LanguageValues,
            audioBase64 : AudioValues, audioMime : AudioMimeValues]}

NoBodyOnly == {[state |-> "none", fields |-> EmptyFields]}

OriginValues == {JUndef, JStr(<<"/","/","a">>), JStr(<<"/","/","b">>)}
SecretHeaderValues == {JUndef, JStr(<<"k","1"," ">>), JStr(<<"k","2">>)}
Paths == {"/health", "/pronounce", "/other"}

Requests ==
  [method : {"POST"}, path : {"/pronounce"}, origin : OriginValues,
   secret : SecretHeaderValues, body : Bodies]
  \cup
  [method : {"POST"}, path : {"/health", "/other"}, origin : OriginValues,
   secret : {JUndef}, body : {b \in Bodies : b.state # "json"}]
  \cup
  [method : {"GET", "OPTIONS"}, path : Paths, origin : OriginValues,
   secret : SecretHeaderValues, body : NoBodyOnly]

NoRequest ==
  [method |-> "", path |-> "", origin |-> JUndef, secret |-> JUndef,
   body |-> [state |-> "none", fields |-> EmptyFields]]

(***************************************************************************)
(* Helpers of the /pronounce handler.                                      *)
(***************************************************************************)
\* the characters the base64 decoder of Buffer.from takes (the enumerated
\* payloads hold no "=" and nothing else outside the alphabet)
Base64Alphabet == Range(UpperAlpha) \cup Range(LowerAlpha) \cup Digits \cup {"+", "/", "-", "_"}

\* String.prototype.length of an audioBase64 string
AudioLength(a) == Len(a.head) + a.fill

\* /^data:([^;]+);base64,/.exec(audioBase64 || ""): the position of the ";"
\* that ends group 1, or 0 when the expression does not match.  "A", the
\* fill character, is neither ";" nor part of ";base64,", so a match lies in head.
MimeMatchEnd(h) ==
  IF ~StartsWith(h, DataScheme) THEN 0
  ELSE LET semis == {i \in (Len(DataScheme) + 1)..Len(h) : h[i] = ";"}
       IN  IF semis = {} THEN 0
           ELSE LET p == CHOOSE i \in semis : \A j \in semis : i <= j
                IN  IF p > Len(DataScheme) + 1
                       /\ p + Len(Base64Mark) - 1 <= Len(h)
                       /\ SubSeq(h, p, p + Len(Base64Mark) - 1) = Base64Mark
                    THEN p ELSE 0

\* detectMime: JNull, or group 1 in lower case
detectMime(a) ==
  IF a.t # "string" THEN JNull
  ELSE LET p == MimeMatchEnd(a.head)
       IN  IF p = 0 THEN JNull
           ELSE JStr(ToLowerCase(SubSeq(a.head, Len(DataScheme) + 1, p - 1)))

\* audioBase64.replace(/^data:.*;base64,/, ""): the greedy .* runs to the last
\* ";base64," of the string; the result is what is left of head
StripDataUrl(h) ==
  IF ~StartsWith(h, DataScheme) THEN h
  ELSE LET marks == {i \in (Len(DataScheme) + 1)..(Len(h) - Len(Base64Mark) + 1) :
                       SubSeq(h, i, i + Len(Base64Mark) - 1) = Base64Mark}
       IN  IF marks = {} THEN h
           ELSE LET q == CHOOSE i \in marks : \A j \in marks : j <= i
                IN  SubSeq(h, q + Len(Base64Mark), Len(h))

\* Buffer.from(cleaned, "base64").length: three bytes for four characters
DecodedLength(a) ==
  LET rest == StripDataUrl(a.head)
      chars == Cardinality({i \in DOMAIN rest : rest[i] \in Base64Alphabet}) + a.fill
  IN  (chars * 3) \div 4

\* base64ToBuffer throws "audioBase64 missing or invalid"
base64ToBufferThrows(a) == a.t # "string" \/ AudioLength(a) < 10

\* if (!targetText || !language || !audioBase64)
TruthyAudio(a) == a.t = "number" \/ (a.t = "string" /\ AudioLength(a) > 0)

\* the required-field check without audioBase64
MissingFieldsNoAudio(f) == ~Truthy(f.targetText) \/ ~Truthy(f.language)

MissingFields(f) ==
  ~Truthy(f.targetText) \/ ~Truthy(f.language) \/ ~TruthyAudio(f.audioBase64)

\* if (!AZURE_SPEECH_KEY || !azureRegion)
MissingEnv == ~Truthy(cfg.AZURE_SPEECH_KEY) \/ azureRegion = <<>>

\* the secret check without its !serverSecret guard
SecretAcceptedNoEmptyGuard(header) ==
  Trim(StringOrEmpty(header)) = Trim(StringOrEmpty(cfg.PRONOUNCE_SECRET))

\* if (!serverSecret || secret !== serverSecret) is false
SecretAccepted(header) ==
  LET serverSecret == Trim(StringOrEmpty(cfg.PRONOUNCE_SECRET))
      secret == Trim(StringOrEmpty(header))
  IN  ~(serverSecret = <<>> \/ secret # serverSecret)

\* const mime = (audioMime || mimeFromDataUrl || "").toLowerCase()
ResolveMime(f) ==
  LET mimeFromDataUrl == detectMime(f.audioBase64)
  IN  ToLowerCase(IF Truthy(f.audioMime) THEN f.audioMime.s
                  ELSE IF Truthy(mimeFromDataUrl) THEN mimeFromDataUrl.s
                  ELSE <<>>)

\* mime.includes("webm")
IsWebm(mime) == Includes(mime, Webm)

ContentTypeOf(mime) ==
  IF Includes(mime, Ogg) THEN "audio/ogg; codecs=opus"
  ELSE "audio/wav; codecs=audio/pcm; samplerate=16000"

\* the length check rejecting the empty buffer only
AudioTooShortEmptyOnly(len) == len = 0

\* if (!audioBuf || audioBuf.length < 2000)
AudioTooShort(len) == len < MinAudioBytes

\* score >= k on a number or NaN (NaN compares false)
AtLeast(score, k) == score.t = "number" /\ score.n >= k

\* pickGrade with > for >=
pickGradeStrict(score) ==
  IF AtLeast(score, 91) THEN "excellent"
  ELSE IF AtLeast(score, 81) THEN "good"
  ELSE IF AtLeast(score, 71) THEN "ok"
  ELSE "try_again"

pickGrade(score) ==
  IF AtLeast(score, 90) THEN "excellent"
  ELSE IF AtLeast(score, 80) THEN "good"
  ELSE IF AtLeast(score, 70) THEN "ok"
  ELSE "try_again"

(***************************************************************************)
(* The upstream reply.  raw is the text of the reply body: valid says      *)
(* whether JSON.parse accepts it, the other fields what it then holds.     *)
(***************************************************************************)
RawBody(valid, root, nbest, pa, pron, acc) ==
  [valid |-> valid, root |-> root, nbest |-> nbest, pa |-> pa, pron |-> pron, acc |-> acc]

NotJson == RawBody(FALSE, "text", "absent", FALSE, JUndef, JUndef)

PronScoreValues ==
  {JUndef, JNull, JStr(<<"n","/","a">>), JStr(<<"8","5">>), JBool(TRUE)}
  \cup {JNum(n) : n \in {0, 694, 695, 700, 794, 795, 800, 894, 895, 900, 924,
                         1000, 1004, 1005, 2500, 0 - 4, 0 - 6}}

AccuracyScoreValues == {JUndef, JNum(850), JStr(<<"n","/","a">>)}

UpstreamBodies ==
  {NotJson, RawBody(TRUE, "null", "absent", FALSE, JUndef, JUndef)}
  \cup {RawBody(TRUE, "object", nb, FALSE, JUndef, JUndef) :
          nb \in {"absent", "notarray", "empty", "falsy", "one"}}
  \cup {RawBody(TRUE, "object", "one", TRUE, p, a) :
          p \in PronScoreValues, a \in AccuracyScoreValues}

FailureBodies == {NotJson, RawBody(TRUE, "object", "absent", FALSE, JUndef, JUndef)}

NoReply == [kind |-> "none", status |-> 0, raw |-> NotJson]

\* what await fetch(...) can give: a rejection (transport failure) or a reply
UpstreamOutcomes ==
  {[kind |-> "error", status |-> 0, raw |-> NotJson]}
  \cup {[kind |-> "reply", status |-> 200, raw |-> b] : b \in UpstreamBodies}
  \cup {[kind |-> "reply", status |-> s, raw |-> b] : s \in {400, 503}, b \in FailureBodies}

\* Response.ok
ReplyOk(r) == r.status >= 200 /\ r.status <= 299

\* try { json = JSON.parse(raw); } catch { json = { raw }; }
ParseOrWrap(raw) == [wrapped |-> ~raw.valid, doc |-> raw]

NoJson == ParseOrWrap(NotJson)

\* extractBest: whether a best candidate (a truthy NBest[0]) exists
HasBest(json) ==
  ~json.wrapped /\ json.doc.root = "object" /\ json.doc.nbest = "one"

\* const pa = best?.PronunciationAssessment || {}
PaOf(json) ==
  IF HasBest(json) /\ json.doc.pa
  THEN [PronScore |-> json.doc.pron, AccuracyScore |-> json.doc.acc]
  ELSE [PronScore |-> JUndef, AccuracyScore |-> JUndef]

\* the score selection without its ?? 0 default
SelectScoreNoDefault(pa) ==
  IF ~Nullish(pa.PronScore) THEN pa.PronScore ELSE pa.AccuracyScore

\* pa?.PronScore ?? pa?.AccuracyScore ?? 0
SelectScore(pa) ==
  IF ~Nullish(pa.PronScore) THEN pa.PronScore
  ELSE IF ~Nullish(pa.AccuracyScore) THEN pa.AccuracyScore
  ELSE JNum(0)

DigitSeq == <<"0","1","2","3","4","5","6","7","8","9">>

RECURSIVE DigitsValue(_)
DigitsValue(s) ==
  IF s = <<>> THEN 0
  ELSE 10 * DigitsValue(SubSeq(s, 1, Len(s) - 1))
       + (CHOOSE d \in DOMAIN DigitSeq : DigitSeq[d] = s[Len(s)]) - 1

\* Number(x), in tenths
NumberOf(v) ==
  CASE v.t = "number" -> v
    [] v.t = "boolean" -> JNum(10 * v.n)
    [] v.t = "null" -> JNum(0)
    [] v.t = "string" ->
         IF Trim(v.s) = <<>> THEN JNum(0)
         ELSE IF Range(Trim(v.s)) \subseteq Digits THEN JNum(10 * DigitsValue(Trim(v.s)))
         ELSE JNaN
    [] OTHER -> JNaN

\* Math.round: tenths to the nearest integer, halves towards +infinity
MathRound(x) == IF x.t = "nan" THEN JNaN ELSE JNum((x.n + 5) \div 10)

(***************************************************************************)
(* Responses.                                                              *)
(***************************************************************************)
NoHeaders ==
  [Vary |-> "", AllowMethods |-> "", AllowHeaders |-> "", MaxAge |-> "",
   AllowOrigin |-> <<>>]

EmptyBody ==
  [json |-> FALSE, ok |-> FALSE, error |-> "", service |-> "", mime |-> <<>>,
   overallScore |-> JUndef, grade |-> "", azureStatus |-> 0, azureBody |-> NoJson]

JsonBody == [EmptyBody EXCEPT !.json = TRUE]

ErrorBody(msg) == [JsonBody EXCEPT !.error = msg]

BlankResponse == [status |-> 0, headers |-> NoHeaders, body |-> EmptyBody]

NoCall == [contentType |-> ""]

Init ==
  /\ cfg \in Configs
  /\ pc = "idle"
  /\ req = NoRequest
  /\ res = BlankResponse
  /\ passed = {}
  /\ upstreamCalls = 0
  /\ call = NoCall
  /\ azureResp = NoReply

\* a request arrives; requests share nothing but cfg, so the model follows
\* one at a time
Receive ==
  /\ pc = "idle"
  /\ \E r \in Requests : req' = r
  /\ pc' = "json"
  /\ res' = BlankResponse
  /\ passed' = {}
  /\ upstreamCalls' = 0
  /\ call' = NoCall
  /\ azureResp' = NoReply
  /\ UNCHANGED cfg

\* app.use(express.json({ limit: "15mb" })), registered before every other
\* middleware: a body it rejects goes to next(err), which skips the CORS
\* middleware and the routes; Express answers with the error's status
JsonBodyParser ==
  /\ pc = "json"
  /\ IF req.body.state = "malformed"
     THEN pc' = "done" /\ res' = [res EXCEPT !.status = 400]
     ELSE IF req.body.state = "toolarge"
     THEN pc' = "done" /\ res' = [res EXCEPT !.status = 413]
     ELSE pc' = "cors" /\ UNCHANGED res
  /\ UNCHANGED <<cfg, req, passed, upstreamCalls, call, azureResp>>

CorsHeaders(origin) ==
  [Vary |-> "Origin",
   AllowMethods |-> "GET,POST,OPTIONS",
   AllowHeaders |-> "Content-Type, x-pronounce-secret",
   MaxAge |-> "86400",
   AllowOrigin |-> IF Truthy(origin) THEN origin.s ELSE <<"*">>]

CorsMiddleware ==
  /\ pc = "cors"
  /\ IF req.method = "OPTIONS"
     THEN /\ pc' = "done"
          /\ res' = [res EXCEPT !.headers = CorsHeaders(req.origin), !.status = 204]
     ELSE IF Truthy(req.origin) /\ ~isAllowedOrigin(req.origin)
     THEN /\ pc' = "done"
          /\ res' = [status |-> 403, headers |-> CorsHeaders(req.origin),
                     body |-> ErrorBody("CORS blocked")]
     ELSE /\ pc' = "route"
          /\ res' = [res EXCEPT !.headers = CorsHeaders(req.origin)]
  /\ UNCHANGED <<cfg, req, passed, upstreamCalls, call, azureResp>>

Health ==
  /\ pc = "route"
  /\ req.method = "GET" /\ req.path = "/health"
  /\ pc' = "done"
  /\ res' = [res EXCEPT !.status = 200,
                        !.body = [JsonBody EXCEPT !.ok = TRUE,
                                                  !.service = "pronounce-backend"]]
  /\ UNCHANGED <<cfg, req, passed, upstreamCalls, call, azureResp>>

\* no route matches: Express answers 404
NotFound ==
  /\ pc = "route"
  /\ ~(req.method = "GET" /\ req.path = "/health")
  /\ ~(req.method = "POST" /\ req.path = "/pronounce")
  /\ pc' = "done"
  /\ res' = [res EXCEPT !.status = 404]
  /\ UNCHANGED <<cfg, req, passed, upstreamCalls, call, azureResp>>

\* app.post("/pronounce"), from its entry to the await of fetch; a throw is
\* caught by the handler's catch and answered 500 with the error's message
PronounceValidate ==
  /\ pc = "route"
  /\ req.method = "POST" /\ req.path = "/pronounce"
  /\ LET f == req.body.fields
         mime == ResolveMime(f)
     IN  IF ~SecretAccepted(req.secret)
         THEN /\ res' = [res EXCEPT !.status = 401,
                                    !.body = ErrorBody("Unauthorized (bad secret)")]
              /\ passed' = {}
              /\ pc' = "done"
              /\ UNCHANGED <<upstreamCalls, call>>
         ELSE IF MissingFields(f)
         THEN /\ res' = [res EXCEPT !.status = 400,
                           !.body = ErrorBody("Missing fields. Required: targetText, language, audioBase64")]
              /\ passed' = {"secret"}
              /\ pc' = "done"
              /\ UNCHANGED <<upstreamCalls, call>>
         ELSE IF MissingEnv
         THEN /\ res' = [res EXCEPT !.status = 500,
                           !.body = ErrorBody("Missing env. Required: AZURE_SPEECH_KEY, AZURE_SPEECH_REGION")]
              /\ passed' = {"secret", "fields"}
              /\ pc' = "done"
              /\ UNCHANGED <<upstreamCalls, call>>
         ELSE IF IsWebm(mime)
         THEN /\ res' = [res EXCEPT !.status = 400,
                           !.body = [ErrorBody("Unsupported audio container: audio/webm. Record as audio/ogg;codecs=opus or WAV/PCM.")
                                       EXCEPT !.mime = mime]]
              /\ passed' = {"secret", "fields", "env"}
              /\ pc' = "done"
              /\ UNCHANGED <<upstreamCalls, call>>
         ELSE IF base64ToBufferThrows(f.audioBase64)
         THEN /\ res' = [res EXCEPT !.status = 500,
                                    !.body = ErrorBody("audioBase64 missing or invalid")]
              /\ passed' = {"secret", "fields", "env", "container"}
              /\ pc' = "done"
              /\ UNCHANGED <<upstreamCalls, call>>
         ELSE IF AudioTooShort(DecodedLength(f.audioBase64))
         THEN /\ res' = [res EXCEPT !.status = 400,
                                    !.body = ErrorBody("Audio too short/empty")]
              /\ passed' = {"secret", "fields", "env", "container"}
              /\ pc' = "done"
              /\ UNCHANGED <<upstreamCalls, call>>
         ELSE /\ upstreamCalls' = upstreamCalls + 1
              /\ call' = [contentType |-> ContentTypeOf(mime)]
              /\ passed' = {"secret", "fields", "env", "container", "length"}
              /\ pc' = "fetching"
              /\ UNCHANGED res
  /\ UNCHANGED <<cfg, req, azureResp>>

\* the fetch settles: the upstream replies, or the call itself fails
UpstreamSettles ==
  /\ pc = "fetching"
  /\ \E o \in UpstreamOutcomes : azureResp' = o
  /\ pc' = "fetched"
  /\ UNCHANGED <<cfg, req, res, passed, upstreamCalls, call>>

\* the score of a 200 response
OverallScoreOf(json) == MathRound(NumberOf(SelectScore(PaOf(json))))

\* app.post("/pronounce"), from the await of fetch to the response
PronounceFinish ==
  /\ pc = "fetched"
  /\ pc' = "done"
  /\ IF azureResp.kind = "error"
     THEN res' = [res EXCEPT !.status = 500, !.body = ErrorBody("fetch failed")]
     ELSE LET json == ParseOrWrap(azureResp.raw)
          IN  IF ~ReplyOk(azureResp)
              THEN res' = [res EXCEPT !.status = 502,
                             !.body = [ErrorBody("Azure request failed")
                                         EXCEPT !.azureStatus = azureResp.status,
                                                !.azureBody = json]]
              ELSE LET overallScore == OverallScoreOf(json)
                   IN  res' = [res EXCEPT !.status = 200,
                                 !.body = [JsonBody EXCEPT !.ok = TRUE,
                                                           !.overallScore = overallScore,
                                                           !.grade = pickGrade(overallScore)]]
  /\ UNCHANGED <<cfg, req, passed, upstreamCalls, call, azureResp>>

\* the response is sent and the request's state is dropped
EndRequest ==
  /\ pc = "done"
  /\ pc' = "idle"
  /\ req' = NoRequest
  /\ res' = BlankResponse
  /\ passed' = {}
  /\ upstreamCalls' = 0
  /\ call' = NoCall
  /\ azureResp' = NoReply
  /\ UNCHANGED cfg

Next ==
  \/ Receive
  \/ JsonBodyParser
  \/ CorsMiddleware
  \/ Health
  \/ NotFound
  \/ PronounceValidate
  \/ UpstreamSettles
  \/ PronounceFinish
  \/ EndRequest

Spec == Init /\ [][Next]_vars

(***************************************************************************)
(* Properties.                                                             *)
(***************************************************************************)
Done == pc = "done"

IsPronounce == req.method = "POST" /\ req.path = "/pronounce"

IsHealth == req.method = "GET" /\ req.path = "/health"

\* the trimmed header differs from the trimmed configured secret, or no
\* secret is configured
BadSecret ==
  LET configured == IF cfg.PRONOUNCE_SECRET.t = "string"
                    THEN Trim(cfg.PRONOUNCE_SECRET.s) ELSE <<>>
      given == IF req.secret.t = "string" THEN Trim(req.secret.s) ELSE <<>>
  IN  configured = <<>> \/ given # configured

\* express.json accepted the body (or there was none)
BodyAccepted == req.body.state \in {"none", "json"}

\* the Origin header is absent, or no allow-list is configured, or it is listed
OriginPermitted ==
  \/ req.origin.t # "string"
  \/ req.origin.s = <<>>
  \/ allowedOrigins = <<>>
  \/ \E i \in DOMAIN allowedOrigins : allowedOrigins[i] = req.origin.s

UnauthorizedError == "Unauthorized (bad secret)"
MissingFieldsError == "Missing fields. Required: targetText, language, audioBase64"
MissingEnvError == "Missing env. Required: AZURE_SPEECH_KEY, AZURE_SPEECH_REGION"
UnsupportedContainerError ==
  "Unsupported audio container: audio/webm. Record as audio/ogg;codecs=opus or WAV/PCM."

\* C1 as stated: every POST /pronounce request with a bad secret, or with no
\* secret configured, is answered 401, whatever its Origin header, body
\* fields, audio content and the server's key and region configuration.
C1_BadSecretAlways401 ==
  (Done /\ IsPronounce /\ BodyAccepted /\ BadSecret) => res.status = 401

\* C1 amended: a POST /pronounce request whose body express.json accepted and
\* whose Origin is absent or allowed is answered 401, with no upstream call,
\* when its secret is bad or no secret is configured; this is the first check
\* of the handler, whatever the body fields, the audio and the key and region.
C1_BadSecret401InHandler ==
  (Done /\ IsPronounce /\ BodyAccepted /\ OriginPermitted /\ BadSecret)
    => (res.status = 401 /\ res.body.error = UnauthorizedError /\ upstreamCalls = 0)

C1_Witness ==
  /\ Done /\ IsPronounce /\ OriginPermitted /\ BadSecret
  /\ req.body.state = "json"
  /\ cfg.PRONOUNCE_SECRET = JStr(<<" ","k","1"," ">>)
  /\ req.secret = JStr(<<"k","2">>)
  /\ Truthy(req.origin)
  /\ ~MissingFields(req.body.fields)
  /\ res.status = 401

\* the request's fields, as the five checks of the handler need them
FieldsPresent ==
  LET f == req.body.fields
  IN  /\ f.targetText.t = "string" /\ f.targetText.s # <<>>
      /\ f.language.t = "string" /\ f.language.s # <<>>
      /\ \/ f.audioBase64.t = "number"
         \/ f.audioBase64.t = "string" /\ Len(f.audioBase64.head) + f.audioBase64.fill > 0

EnvPresent ==
  /\ cfg.AZURE_SPEECH_KEY.t = "string" /\ cfg.AZURE_SPEECH_KEY.s # <<>>
  /\ cfg.AZURE_SPEECH_REGION.t = "string" /\ Trim(cfg.AZURE_SPEECH_REGION.s) # <<>>

\* C2: the upstream API is called at most once per request; it is not called
\* when the request ends in 400, 401, 403 or the server-configuration 500; and
\* a call is issued only for a request that passed the secret, required-field,
\* server-configuration, container and decoded-length checks.
C2_UpstreamCalledOnlyAfterChecks ==
  /\ upstreamCalls <= 1
  /\ (Done /\ res.status \in {400, 401, 403}) => upstreamCalls = 0
  /\ (Done /\ res.status = 500 /\ res.body.error = MissingEnvError) => upstreamCalls = 0
  /\ upstreamCalls = 1 =>
       /\ IsPronounce /\ ~BadSecret /\ FieldsPresent /\ EnvPresent
       /\ ~Includes(ResolveMime(req.body.fields), Webm)
       /\ req.body.fields.audioBase64.t = "string"
       /\ DecodedLength(req.body.fields.audioBase64) >= MinAudioBytes
       /\ passed = {"secret", "fields", "env", "container", "length"}

C2_Witness ==
  /\ Done /\ IsPronounce
  /\ passed = {"secret", "fields", "env", "container"}
  /\ DecodedLength(req.body.fields.audioBase64) = MinAudioBytes - 1
  /\ res.status = 400
  /\ upstreamCalls = 0

\* the upstream call failed: the fetch was rejected, or the reply is not ok
UpstreamFailed ==
  \/ azureResp.kind = "error"
  \/ azureResp.kind = "reply" /\ ~(azureResp.status \in 200..299)

\* C3: when the upstream call fails, by a non-success status or by a
\* transport-level failure, the response is 502; for a reply it carries the
\* upstream status and the upstream body, parsed or wrapped.
C3_UpstreamFailureIs502 ==
  (Done /\ IsPronounce /\ UpstreamFailed) =>
    /\ res.status = 502
    /\ azureResp.kind = "reply" =>
         /\ res.body.azureStatus = azureResp.status
         /\ res.body.azureBody = [wrapped |-> ~azureResp.raw.valid, doc |-> azureResp.raw]

\* the media type of the data-URL preamble: the text between "data:" and the
\* ";base64," that ends what base64ToBuffer strips, parameters included
PreambleMime(h) ==
  LET n == Len(h) - Len(StripDataUrl(h))
  IN  IF n = 0 THEN <<>>
      ELSE SubSeq(h, Len(DataScheme) + 1, n - Len(Base64Mark))

\* the container a request declares: the audioMime hint if supplied, else the
\* media type of the data-URL preamble
DeclaredContainer ==
  LET f == req.body.fields
  IN  IF f.audioMime.t = "string" /\ f.audioMime.s # <<>> THEN f.audioMime.s
      ELSE IF f.audioBase64.t = "string" THEN PreambleMime(f.audioBase64.head)
      ELSE <<>>

DeclaresWebm == Includes(ToLowerCase(DeclaredContainer), Webm)

\* C4, on an otherwise valid request (fields present, server configured, audio
\* long enough): a request that passes the secret check and declares a webm
\* container, with or without parameters, in any letter case, by the
\* audioMime hint or in the data-URL preamble, is answered 400 with the
\* unsupported-container error and is not forwarded upstream.
C4_WebmRejected ==
  (/\ IsPronounce /\ {"secret", "fields", "env"} \subseteq passed
   /\ req.body.fields.audioBase64.t = "string"
   /\ DecodedLength(req.body.fields.audioBase64) >= MinAudioBytes
   /\ DeclaresWebm)
    => /\ upstreamCalls = 0
       /\ Done => (res.status = 400 /\ res.body.error = UnsupportedContainerError)

\* C5: a request that passes the secret, required-field and
\* server-configuration checks and whose audioBase64 decodes to fewer than
\* 2000 bytes is answered 400, for every container and every value of
\* audioBase64 and audioMime, very short payloads included.
C5_ShortAudio400 ==
  (/\ Done /\ IsPronounce /\ {"secret", "fields", "env"} \subseteq passed
   /\ req.body.fields.audioBase64.t = "string"
   /\ DecodedLength(req.body.fields.audioBase64) < MinAudioBytes)
    => res.status = 400

\* one of targetText, language, audioBase64 is absent or falsy
SomeFieldMissing ==
  LET f == req.body.fields
  IN  \/ f.targetText.t = "undefined" \/ f.targetText = JStr(<<>>)
      \/ f.language.t = "undefined" \/ f.language = JStr(<<>>)
      \/ f.audioBase64.t = "undefined"
      \/ f.audioBase64 = AudioStr(<<>>, 0)

\* C6: a POST /pronounce request that passes the secret check and lacks one of
\* targetText, language, audioBase64 is answered 400 with the error naming the
\* three required fields, also when the API key or the region is not
\* configured, and nothing is sent upstream.
C6_MissingFields400 ==
  (Done /\ IsPronounce /\ "secret" \in passed /\ SomeFieldMissing)
    => (res.status = 400 /\ res.body.error = MissingFieldsError /\ upstreamCalls = 0)

C6_Witness ==
  /\ Done /\ IsPronounce /\ "secret" \in passed
  /\ req.body.fields.audioBase64.t = "undefined"
  /\ Truthy(req.body.fields.targetText) /\ Truthy(req.body.fields.language)
  /\ ~EnvPresent
  /\ res.status = 400 /\ res.body.error = MissingFieldsError

\* the sub-score the overall score is taken from, as the reply body holds
\* it: PronScore, else AccuracyScore, of the first NBest candidate's
\* PronunciationAssessment; JUndef when there is none
ReplySubScore ==
  LET raw == azureResp.raw
      scored == raw.valid /\ raw.root = "object" /\ raw.nbest = "one" /\ raw.pa
  IN  IF scored /\ raw.pron.t \notin {"undefined", "null"} THEN raw.pron
      ELSE IF scored /\ raw.acc.t \notin {"undefined", "null"} THEN raw.acc
      ELSE JUndef

Is200 == Done /\ IsPronounce /\ res.status = 200

\* C7 as stated: in every 200 response overallScore is an integer in 0..100,
\* for every upstream success body, sub-scores of any type or magnitude
\* included.
C7_ScoreAlwaysInRange ==
  Is200 => (res.body.overallScore.t = "number" /\ res.body.overallScore.n \in 0..100)

\* C7 amended: in every 200 response overallScore is 0 when the reply holds
\* neither PronScore nor AccuracyScore (empty or absent NBest, no
\* PronunciationAssessment, a body that is not JSON), and is an integer in
\* 0..100, the sub-score rounded to the nearest integer, when the selected
\* sub-score is a number within 0..100.
C7_ScoreInRangeForValidSubScore ==
  Is200 =>
    /\ ReplySubScore = JUndef => res.body.overallScore = JNum(0)
    /\ (ReplySubScore.t = "number" /\ ReplySubScore.n \in 0..1000) =>
         /\ res.body.overallScore.t = "number"
         /\ res.body.overallScore.n \in 0..100
         /\ 10 * res.body.overallScore.n - 5 <= ReplySubScore.n
         /\ ReplySubScore.n < 10 * res.body.overallScore.n + 5

C7_Witness ==
  /\ Is200
  /\ azureResp.raw.pron = JNum(924)
  /\ ReplySubScore = JNum(924)
  /\ res.body.overallScore = JNum(92)

\* C8: in every 200 response grade follows from overallScore alone:
\* excellent from 90, good for 80..89, ok for 70..79, try_again otherwise.
C8_GradeThresholds ==
  Is200 =>
    LET s == res.body.overallScore
        g == res.body.grade
    IN  /\ (s.t = "number" /\ s.n >= 90) => g = "excellent"
        /\ (s.t = "number" /\ s.n >= 80 /\ s.n <= 89) => g = "good"
        /\ (s.t = "number" /\ s.n >= 70 /\ s.n <= 79) => g = "ok"
        /\ (s.t # "number" \/ s.n <= 69) => g = "try_again"

C8_Witness ==
  /\ Is200
  /\ res.body.overallScore = JNum(90)
  /\ azureResp.raw.pron = JNum(895)
  /\ res.body.grade = "excellent"

HealthPayload ==
  /\ res.status = 200
  /\ res.body.json /\ res.body.ok
  /\ res.body.service = "pronounce-backend"

\* C9 as stated: every GET /health request is answered 200 with the liveness
\* payload, whatever the secret header, the Origin header, the allow-list and
\* the configuration.
C9_HealthAlways200 ==
  (Done /\ IsHealth) => HealthPayload

\* C9 amended: every GET /health request whose Origin is absent or allowed
\* (and whose body, if it has one, express.json accepts) is answered 200 with
\* the liveness payload, whatever the secret header and whether or not the
\* secret, the API key and the region are configured.
C9_HealthPermittedOrigin200 ==
  (Done /\ IsHealth /\ BodyAccepted /\ OriginPermitted) => HealthPayload

C9_Witness ==
  /\ Done /\ IsHealth
  /\ req.origin = JStr(<<"/","/","a">>)
  /\ allowedOrigins = <<req.origin.s>>
  /\ req.secret = JUndef
  /\ cfg.PRONOUNCE_SECRET = JUndef /\ cfg.AZURE_SPEECH_KEY = JUndef
  /\ cfg.AZURE_SPEECH_REGION = JUndef
  /\ HealthPayload

\* C10: every response carries Access-Control-Allow-Origin,
\* Access-Control-Allow-Methods (GET,POST,OPTIONS), Access-Control-Allow-Headers
\* (Content-Type, x-pronounce-secret) and Access-Control-Max-Age, a request
\* whose JSON body cannot be parsed or is too large included.
C10_CorsHeadersOnEveryResponse ==
  Done =>
    /\ res.headers.AllowOrigin # <<>>
    /\ res.headers.AllowMethods = "GET,POST,OPTIONS"
    /\ res.headers.AllowHeaders = "Content-Type, x-pronounce-secret"
    /\ res.headers.MaxAge # ""

====
